---- MODULE Spec2Model ----
(***************************************************************************)
(* A model of VATAVARANA.py, the Bengaluru weather dashboard: the          *)
(* cache-or-fetch load of the daily dataset, the year/month selection and  *)
(* the monthly summary (totals, means, the two classification labels and   *)
(* the rainy/dry day counts).                                              *)
(*                                                                         *)
(* Numbers are held in hundredths (29.1 degrees is 2910): the decimal      *)
(* value a float prints as.  A cell of a numeric column is a record        *)
(*   [k |-> "num" | "nan" | "str", v |-> hundredths, w |-> 32 | 64 | 0,    *)
(*    s |-> the raw text of a cell of an object column]                    *)
(* so that NaN compares and sums as in pandas, and a float32 of the fetch  *)
(* path is not the same value as the float64 read back from the CSV file.  *)
(* Sums and means are exact in hundredths; a mean is kept as the fraction   *)
(* sum / cnt.  A timestamp is a day number counted from 2014-01-01 (day     *)
(* resolution).  Text (a CSV cell) is a sequence of one-character strings.  *)
(*                                                                         *)
(* Both load_data and fetch_weather_data are under st.cache_data.  The     *)
(* memo of fetch_weather_data is only consulted by a load_data that misses *)
(* its own memo, which stores the same frame in the same step, so one memo *)
(* is kept.  The HTTP response cache of requests_cache is filled by the    *)
(* same successful call that writes the CSV file, after which the fetch    *)
(* branch is not taken again; it is not kept as state.                     *)
(***************************************************************************)
EXTENDS Integers, Sequences, FiniteSets, TLC

(***************************************************************************)
(* Bounds of the model and constants of the program                        *)
(***************************************************************************)
\* longest dataset the weather source returns in the model
MaxDays == 2
\* longest monthly selection drawn for the summary on its own
MaxSel == 3
\* retry(cache_session, retries=5, ...)
Retries == 5
\* "start_date": "2014-01-01": day number 0
EpochYear == 2014
\* range(1, 13)
LastMonth == 12
\* rainy_days >= 3
RainDominantDays == 3
\* avg_max_temp >= 32
HeatDegrees == 32
\* total_rain <= 50
LightRainMax == 50
\* total_rain <= 150
ModerateRainMax == 150
\* hundredths per unit
Scale == 100

(***************************************************************************)
(* Calendar: what Timestamp.year / .month and the ISO date text rest on    *)
(***************************************************************************)
IsLeap(y) == (y % 4 = 0 /\ y % 100 # 0) \/ y % 400 = 0

DaysInYear(y) == IF IsLeap(y) THEN 366 ELSE 365

DaysInMonth(y, m) ==
    IF m = 2 THEN (IF IsLeap(y) THEN 29 ELSE 28)
    ELSE IF m \in {4, 6, 9, 11} THEN 30 ELSE 31

RECURSIVE YearFrom(_, _)
\* <<year, day of the year (from 0)>> of n days after January 1st of y
YearFrom(y, n) ==
    IF n < DaysInYear(y) THEN <<y, n>> ELSE YearFrom(y + 1, n - DaysInYear(y))

RECURSIVE MonthFrom(_, _, _)
\* <<month, day of the month (from 1)>> of day n (from 0) of year y
MonthFrom(y, m, n) ==
    IF n < DaysInMonth(y, m) THEN <<m, n + 1>>
    ELSE MonthFrom(y, m + 1, n - DaysInMonth(y, m))

\* df["date"].dt.year
YearOf(ts) == YearFrom(EpochYear, ts)[1]

\* df["date"].dt.month
MonthOf(ts) == MonthFrom(YearOf(ts), 1, YearFrom(EpochYear, ts)[2])[1]

DayOf(ts) == MonthFrom(YearOf(ts), 1, YearFrom(EpochYear, ts)[2])[2]

RECURSIVE DaysBeforeYear(_)
DaysBeforeYear(y) ==
    IF y <= EpochYear THEN 0 ELSE DaysBeforeYear(y - 1) + DaysInYear(y - 1)

RECURSIVE DaysBeforeMonth(_, _)
DaysBeforeMonth(y, m) ==
    IF m <= 1 THEN 0 ELSE DaysBeforeMonth(y, m - 1) + DaysInMonth(y, m - 1)

\* the timestamp of a calendar date
Ordinal(y, m, d) == DaysBeforeYear(y) + DaysBeforeMonth(y, m) + (d - 1)

(***************************************************************************)
(* Text: numbers and dates as to_csv writes and read_csv / to_datetime     *)
(* read them                                                               *)
(***************************************************************************)
DigitChars == <<"0", "1", "2", "3", "4", "5", "6", "7", "8", "9">>

IsDigit(c) == \E d \in 1..10 : DigitChars[d] = c

DigitValue(c) == (CHOOSE d \in 1..10 : DigitChars[d] = c) - 1

RECURSIVE NatText(_)
NatText(n) ==
    IF n < 10 THEN <<DigitChars[n + 1]>>
    ELSE NatText(n \div 10) \o <<DigitChars[(n % 10) + 1]>>

\* n on at least two digits
Pad2(n) == IF n < 10 THEN <<"0">> \o NatText(n) ELSE NatText(n)

AllDigits(t) == Len(t) > 0 /\ \A i \in 1..Len(t) : IsDigit(t[i])

RECURSIVE NatValue(_)
NatValue(t) ==
    IF Len(t) = 0 THEN 0
    ELSE NatValue(SubSeq(t, 1, Len(t) - 1)) * 10 + DigitValue(t[Len(t)])

\* a Timestamp column written by to_csv: YYYY-MM-DD
FormatDate(ts) ==
    NatText(YearOf(ts)) \o <<"-">> \o Pad2(MonthOf(ts)) \o <<"-">> \o Pad2(DayOf(ts))

\* whether pd.to_datetime parses the text (it raises otherwise)
DateParses(t) ==
    /\ Len(t) = 10
    /\ t[5] = "-" /\ t[8] = "-"
    /\ AllDigits(SubSeq(t, 1, 4)) /\ AllDigits(SubSeq(t, 6, 7)) /\ AllDigits(SubSeq(t, 9, 10))
    /\ NatValue(SubSeq(t, 1, 4)) >= EpochYear
    /\ NatValue(SubSeq(t, 6, 7)) \in 1..LastMonth
    /\ NatValue(SubSeq(t, 9, 10)) \in
           1..DaysInMonth(NatValue(SubSeq(t, 1, 4)), NatValue(SubSeq(t, 6, 7)))

ParseDate(t) ==
    Ordinal(NatValue(SubSeq(t, 1, 4)), NatValue(SubSeq(t, 6, 7)), NatValue(SubSeq(t, 9, 10)))

Num(v, w) == [k |-> "num", v |-> v, w |-> w, s |-> <<>>]

NaN(w) == [k |-> "nan", v |-> 0, w |-> w, s |-> <<>>]

Str(t) == [k |-> "str", v |-> 0, w |-> 0, s |-> t]

Abs(v) == IF v < 0 THEN -v ELSE v

\* the digits after the point: one when the second is 0 (29.1, 0.0), else two
FracText(f) ==
    IF f % 10 = 0 THEN <<DigitChars[(f \div 10) + 1]>>
    ELSE <<DigitChars[(f \div 10) + 1], DigitChars[(f % 10) + 1]>>

\* to_csv with the floats cut to one digit after the point
FormatFloatOneDecimal(c) ==
    IF c.k = "nan" THEN <<>>
    ELSE (IF c.v < 0 THEN <<"-">> ELSE <<>>)
         \o NatText(Abs(c.v) \div Scale) \o <<".">>
         \o <<DigitChars[((Abs(c.v) % Scale) \div 10) + 1]>>

\* a float cell written by to_csv: the shortest repr, and nothing for NaN
FormatFloat(c) ==
    IF c.k = "nan" THEN <<>>
    ELSE (IF c.v < 0 THEN <<"-">> ELSE <<>>)
         \o NatText(Abs(c.v) \div Scale) \o <<".">> \o FracText(Abs(c.v) % Scale)

Unsigned(t) == IF Len(t) > 0 /\ t[1] = "-" THEN SubSeq(t, 2, Len(t)) ELSE t

PointAt(t) == IF \E i \in 1..Len(t) : t[i] = "."
              THEN CHOOSE i \in 1..Len(t) : t[i] = "." /\ \A j \in 1..(i - 1) : t[j] # "."
              ELSE 0

\* whether read_csv takes the text for a number (an empty cell is NaN)
IsNumeric(t) ==
    LET u == Unsigned(t)
        p == PointAt(u)
    IN  \/ Len(t) = 0
        \/ p = 0 /\ AllDigits(u)
        \/ p > 1 /\ AllDigits(SubSeq(u, 1, p - 1)) /\ AllDigits(SubSeq(u, p + 1, Len(u)))

\* the hundredths of the digits after the point (digits past the second are
\* below the resolution of the model)
FracValue(t) ==
    IF Len(t) = 1 THEN DigitValue(t[1]) * 10
    ELSE DigitValue(t[1]) * 10 + DigitValue(t[2])

\* a numeric cell read by read_csv: float64
ParseFloat(t) ==
    IF Len(t) = 0 THEN NaN(64)
    ELSE LET u == Unsigned(t)
             p == PointAt(u)
             mag == IF p = 0 THEN NatValue(u) * Scale
                    ELSE NatValue(SubSeq(u, 1, p - 1)) * Scale
                         + FracValue(SubSeq(u, p + 1, Len(u)))
         IN  Num(IF t[1] = "-" THEN -mag ELSE mag, 64)

(***************************************************************************)
(* Data frames and the CSV cache file                                      *)
(***************************************************************************)
\* the keys of `data`, in order: the header row of the cache file
Cols == <<"date", "temp_max", "temp_min", "temp_mean", "precipitation", "rain",
          "wind_speed_max">>

NumCols == <<"temp_max", "temp_min", "temp_mean", "precipitation", "rain",
             "wind_speed_max">>

Range(q) == {q[i] : i \in 1..Len(q)}

\* no data frame
NoData == [cols |-> <<>>, rows |-> <<>>]

\* no cache file
Absent == [exists |-> FALSE, header |-> <<>>, rows |-> <<>>]

\* pd.date_range(start, end, freq="D", inclusive="left") and the six
\* ValuesAsNumpy() arrays (float32), as one frame
DataFrame(resp) ==
    [cols |-> Cols,
     rows |-> [i \in 1..(resp.timeEnd - resp.time) |->
                  [c \in Range(Cols) |->
                      IF c = "date" THEN resp.time + (i - 1)
                      ELSE resp.values[CHOOSE j \in 1..Len(NumCols) : NumCols[j] = c][i]]]]

\* df.to_csv(CSV_FILE, index=False)
ToCsv(d) ==
    [exists |-> TRUE,
     header |-> d.cols,
     rows |-> [i \in 1..Len(d.rows) |->
                  [j \in 1..Len(d.cols) |->
                      IF d.cols[j] = "date" THEN FormatDate(d.rows[i][d.cols[j]])
                      ELSE FormatFloat(d.rows[i][d.cols[j]])]]]

\* read_csv's type of a column: float64 when every cell is a number or empty,
\* else object (the cells stay text)
ColumnIsNumeric(f, j) == \A i \in 1..Len(f.rows) : IsNumeric(f.rows[i][j])

\* pd.read_csv(CSV_FILE): the date column is still text
ReadCsv(f) ==
    [cols |-> f.header,
     rows |-> [i \in 1..Len(f.rows) |->
                  [c \in Range(f.header) |->
                      LET j == CHOOSE n \in 1..Len(f.header) : f.header[n] = c
                          t == f.rows[i][j]
                      IN  IF c = "date" THEN Str(t)
                          ELSE IF ColumnIsNumeric(f, j) THEN ParseFloat(t)
                          ELSE IF Len(t) = 0 THEN NaN(0)
                          ELSE Str(t)]]]

\* whether pd.to_datetime(df["date"]) returns (it raises on the first text
\* that is no date)
DatesParse(d) == \A i \in 1..Len(d.rows) : DateParses(d.rows[i]["date"].s)

\* df["date"] = pd.to_datetime(df["date"])
ToDatetime(d) ==
    [d EXCEPT !.rows = [i \in 1..Len(d.rows) |->
                           [d.rows[i] EXCEPT !["date"] = ParseDate(d.rows[i]["date"].s)]]]

\* the existence test always answering no
CacheNeverFound(f) == FALSE

\* os.path.exists(CSV_FILE)
CacheExists(f) == f.exists

RECURSIVE CompleteRows(_)
CompleteRows(rows) ==
    IF Len(rows) = 0 THEN <<>>
    ELSE (IF \E c \in DOMAIN rows[1] : c # "date" /\ rows[1][c].k = "nan"
          THEN <<>> ELSE <<rows[1]>>) \o CompleteRows(Tail(rows))

\* the two columns added after a dropna() of the frame
WithYearMonthDropNa(d) ==
    [cols |-> d.cols \o <<"year", "month">>,
     rows |-> [i \in 1..Len(CompleteRows(d.rows)) |->
                  [c \in Range(d.cols) \cup {"year", "month"} |->
                      IF c = "year" THEN YearOf(CompleteRows(d.rows)[i]["date"])
                      ELSE IF c = "month" THEN MonthOf(CompleteRows(d.rows)[i]["date"])
                      ELSE CompleteRows(d.rows)[i][c]]]]

\* df["year"] = df["date"].dt.year; df["month"] = df["date"].dt.month
WithYearMonth(d) ==
    [cols |-> d.cols \o <<"year", "month">>,
     rows |-> [i \in 1..Len(d.rows) |->
                  [c \in Range(d.cols) \cup {"year", "month"} |->
                      IF c = "year" THEN YearOf(d.rows[i]["date"])
                      ELSE IF c = "month" THEN MonthOf(d.rows[i]["date"])
                      ELSE d.rows[i][c]]]]

\* sorted(df["year"].unique())
YearOptions(d) == {d.rows[i]["year"] : i \in 1..Len(d.rows)}

\* range(1, 13)
MonthOptions == 1..LastMonth

RECURSIVE SelectRows(_, _, _)
SelectRows(rows, y, m) ==
    IF Len(rows) = 0 THEN <<>>
    ELSE (IF rows[1]["year"] = y /\ rows[1]["month"] = m THEN <<rows[1]>> ELSE <<>>)
         \o SelectRows(Tail(rows), y, m)

\* df[(df["year"] == year) & (df["month"] == month)]: a new frame
Filter(d, y, m) == SelectRows(d.rows, y, m)

(***************************************************************************)
(* The monthly summary                                                     *)
(***************************************************************************)
\* a column of object type: arithmetic and comparisons on it raise TypeError
IsObject(sel, c) == \E i \in 1..Len(sel) : sel[i][c].k = "str"

RECURSIVE SumSkipNa(_, _)
\* Series.sum(): NaN is skipped, and the sum of nothing is 0
SumSkipNa(sel, c) ==
    IF Len(sel) = 0 THEN 0
    ELSE (IF sel[1][c].k = "num" THEN sel[1][c].v ELSE 0) + SumSkipNa(Tail(sel), c)

RECURSIVE CountValid(_, _)
\* Series.count(): the cells that are not NaN
CountValid(sel, c) ==
    IF Len(sel) = 0 THEN 0
    ELSE (IF sel[1][c].k = "num" THEN 1 ELSE 0) + CountValid(Tail(sel), c)

\* the mean with NaN counted as a zero
MeanNullAsZero(sel, c) == [sum |-> SumSkipNa(sel, c), cnt |-> Len(sel)]

\* Series.mean(): the sum over the count of the cells that are not NaN, kept
\* as the fraction sum / cnt; cnt = 0 is NaN
Mean(sel, c) == [sum |-> SumSkipNa(sel, c), cnt |-> CountValid(sel, c)]

\* NaN > 0 is False
IsPositive(cell) == cell.k = "num" /\ cell.v > 0

\* NaN == 0 is False
IsZero(cell) == cell.k = "num" /\ cell.v = 0

RECURSIVE CountPositive(_, _)
\* (filtered[c] > 0).sum()
CountPositive(sel, c) ==
    IF Len(sel) = 0 THEN 0
    ELSE (IF IsPositive(sel[1][c]) THEN 1 ELSE 0) + CountPositive(Tail(sel), c)

RECURSIVE CountZero(_, _)
\* (filtered[c] == 0).sum()
CountZero(sel, c) ==
    IF Len(sel) = 0 THEN 0
    ELSE (IF IsZero(sel[1][c]) THEN 1 ELSE 0) + CountZero(Tail(sel), c)

\* avg >= n degrees; a comparison with NaN is False
MeanAtLeast(avg, n) == avg.cnt > 0 /\ avg.sum >= n * Scale * avg.cnt

\* the first rule with > in place of >=
DominantWeatherLogicStrict(total_rain, rainy_days, avg_max_temp) ==
    IF total_rain > 0 /\ rainy_days > RainDominantDays THEN "Rain Dominant"
    ELSE IF rainy_days = 0 /\ MeanAtLeast(avg_max_temp, HeatDegrees) THEN "Heat Dominant"
    ELSE "Mixed Weather"

\* the labels are the program's without their leading emoji
DominantWeatherLogic(total_rain, rainy_days, avg_max_temp) ==
    IF total_rain > 0 /\ rainy_days >= RainDominantDays THEN "Rain Dominant"
    ELSE IF rainy_days = 0 /\ MeanAtLeast(avg_max_temp, HeatDegrees) THEN "Heat Dominant"
    ELSE "Mixed Weather"

\* the thresholds with < in place of <=
RainIntensityLogicExclusive(total_rain) ==
    IF total_rain = 0 THEN "No Rain"
    ELSE IF total_rain < LightRainMax * Scale THEN "Light Rain"
    ELSE IF total_rain < ModerateRainMax * Scale THEN "Moderate Rain"
    ELSE "Heavy Rain"

RainIntensityLogic(total_rain) ==
    IF total_rain = 0 THEN "No Rain"
    ELSE IF total_rain <= LightRainMax * Scale THEN "Light Rain"
    ELSE IF total_rain <= ModerateRainMax * Scale THEN "Moderate Rain"
    ELSE "Heavy Rain"

NoSummary ==
    [total_rain |-> 0, rainy_days |-> 0,
     avg_temp |-> [sum |-> 0, cnt |-> 0], avg_max_temp |-> [sum |-> 0, cnt |-> 0],
     dominant_weather |-> "", rain_intensity |-> ""]

\* the calculations and the two labels
SummaryOf(sel) ==
    LET total_rain == SumSkipNa(sel, "rain")
        rainy_days == CountPositive(sel, "rain")
        avg_temp == Mean(sel, "temp_mean")
        avg_max_temp == Mean(sel, "temp_max")
    IN  [total_rain |-> total_rain, rainy_days |-> rainy_days,
         avg_temp |-> avg_temp, avg_max_temp |-> avg_max_temp,
         dominant_weather |-> DominantWeatherLogic(total_rain, rainy_days, avg_max_temp),
         rain_intensity |-> RainIntensityLogic(total_rain)]

\* rainy = (filtered["rain"] > 0).sum()
RainyDays(sel) == CountPositive(sel, "rain")

\* the dry days taken as the days that are not rainy
DryDaysAsRest(sel) == Len(sel) - CountPositive(sel, "rain")

\* dry = (filtered["rain"] == 0).sum()
DryDays(sel) == CountZero(sel, "rain")

NoChart == [drawn |-> FALSE, rainy |-> 0, dry |-> 0]

(***************************************************************************)
(* Inputs: what the weather source answers, and the monthly selections     *)
(* the summary is checked on by itself                                     *)
(***************************************************************************)
\* first days of the answers: 2014-01-31, 2014-12-31, 2016-02-29 (the next
\* day is in another month, another year, after a leap day)
StartDays == {Ordinal(2014, 1, 31), Ordinal(2014, 12, 31), Ordinal(2016, 2, 29)}

\* one day of the six variables, in the order of NumCols, as float32: a dry
\* day, a rainy day, a day without observations, a day with one variable
\* missing
DayVals ==
    {<<Num(2910, 32), Num(1850, 32), Num(2405, 32), Num(0, 32), Num(0, 32), Num(1230, 32)>>,
     <<Num(3350, 32), Num(2100, 32), Num(2725, 32), Num(1201, 32), Num(1201, 32), Num(990, 32)>>,
     <<NaN(32), NaN(32), NaN(32), NaN(32), NaN(32), NaN(32)>>,
     <<Num(-50, 32), NaN(32), Num(-305, 32), Num(15001, 32), Num(15001, 32), Num(5, 32)>>}

\* response.Daily(): Time(), TimeEnd() and the six Variables(j)
ResponseOf(start, days) ==
    [time |-> start, timeEnd |-> start + Len(days),
     values |-> [j \in 1..Len(NumCols) |-> [i \in 1..Len(days) |-> days[i][j]]]]

Responses ==
    {ResponseOf(s, days) : s \in StartDays,
                           days \in UNION {[1..n -> DayVals] : n \in 1..MaxDays}}

RainVals == {NaN(64), Num(0, 64), Num(1, 64), Num(5000, 64), Num(10000, 64)}

TempMaxVals == {NaN(64), Num(3100, 64), Num(3300, 64)}

\* rain, temp_max and temp_mean of one day: every rain with every temp_max,
\* and a day without observations
DayProfiles ==
    (RainVals \X TempMaxVals \X {Num(2500, 64)}) \cup {<<NaN(64), NaN(64), NaN(64)>>}

\* day i of April 2014 with the given rain, temp_max and temp_mean
SelRow(i, rain, tmax, tmean) ==
    [c \in Range(Cols) \cup {"year", "month"} |->
        CASE c = "date" -> Ordinal(2014, 4, i)
          [] c = "year" -> 2014
          [] c = "month" -> 4
          [] c = "rain" -> rain
          [] c = "precipitation" -> rain
          [] c = "temp_max" -> tmax
          [] c = "temp_mean" -> tmean
          [] OTHER -> Num(2000, 64)]

\* 30 days, 5 of them rainy with 16.0 mm each (80.0 mm), every temp_max 29.0
ScenarioRain ==
    [i \in 1..30 |-> SelRow(i, IF i <= 5 THEN Num(1600, 64) ELSE Num(0, 64),
                            Num(2900, 64), Num(2500, 64))]

\* 30 days, no rain, every temp_max 35.0
ScenarioHeat ==
    [i \in 1..30 |-> SelRow(i, Num(0, 64), Num(3500, 64), Num(2900, 64))]

Selections ==
    {ScenarioRain, ScenarioHeat} \cup
    {[i \in 1..Len(t) |-> SelRow(i, t[i][1], t[i][2], t[i][3])] :
        t \in UNION {[1..n -> DayProfiles] : n \in 1..MaxSel}}

\* text that is no date, and text that is no number
BadDates == {<<"x">>, <<"2", "0", "1", "4", "-", "0", "2", "-", "3", "0">>}

BadNumbers == {<<"a">>}

\* the file f with the cell of row i, column j replaced by text t
Corrupt(f, i, j, t) == [f EXCEPT !.rows[i][j] = t]

\* the cache files of the answers with one malformed cell in one row, each
\* with the frame it was written from
MalformedFiles ==
    UNION {{[file |-> Corrupt(ToCsv(DataFrame(r)), i, j, t), from |-> DataFrame(r)] :
               i \in 1..(r.timeEnd - r.time),
               j \in 2..Len(Cols),
               t \in BadNumbers}
           \cup
           {[file |-> Corrupt(ToCsv(DataFrame(r)), i, 1, t), from |-> DataFrame(r)] :
               i \in 1..(r.timeEnd - r.time),
               t \in BadDates} : r \in Responses}

(***************************************************************************)
(* State                                                                   *)
(***************************************************************************)
VARIABLES
    file,      \* CSV_FILE on disk
    memo,      \* st.cache_data's stored result of load_data (one per process)
    df,        \* the script's df
    source,    \* where df came from: "none", "fetch", "file", "memo"
    pc,        \* where the script run is
    attempts,  \* network calls made by the current weather_api call
    error,     \* the exception that ended the script run, or "none"
    year,      \* the year select box
    month,     \* the month select box
    filtered,  \* the script's filtered (its rows)
    summary,   \* the calculations and labels
    chart,     \* the rainy/dry bar chart's two counts
    warning,   \* st.warning("No data available ...") shown
    fetched    \* history: the frame the fetch built (what the file was written from)

vars == <<file, memo, df, source, pc, attempts, error, year, month, filtered,
          summary, chart, warning, fetched>>

\* the script's own variables at the start of a run
FreshRun ==
    /\ df = NoData /\ source = "none" /\ pc = "start" /\ error = "none"
    /\ year = 0 /\ month = 0 /\ filtered = <<>>
    /\ summary = NoSummary /\ chart = NoChart /\ warning = FALSE

\* a first run: no cache file, nothing memoized
Init ==
    /\ file = Absent /\ memo = NoData /\ attempts = 0 /\ fetched = NoData
    /\ FreshRun

\* the budget counted one call short
BudgetExhaustedEarly(made) == made >= Retries

\* the retry budget is used up after `made` failed calls: the first call and
\* `retries` more
BudgetExhausted(made) == made > Retries

\* df = load_data(): the memoized frame (a copy), else the cache-or-fetch body
LoadData ==
    /\ pc = "start"
    /\ IF memo # NoData
       THEN /\ df' = memo /\ source' = "memo" /\ pc' = "loaded"
            /\ UNCHANGED <<memo, attempts, error>>
       ELSE IF ~CacheExists(file)
       THEN /\ pc' = "fetching" /\ attempts' = 0
            /\ UNCHANGED <<df, source, memo, error>>
       ELSE IF DatesParse(ReadCsv(file))
       THEN /\ df' = ToDatetime(ReadCsv(file))
            /\ memo' = df' /\ source' = "file" /\ pc' = "loaded"
            /\ UNCHANGED <<attempts, error>>
       ELSE /\ pc' = "failed" /\ error' = "ValueError"
            /\ UNCHANGED <<df, source, memo, attempts>>
    /\ UNCHANGED <<file, year, month, filtered, summary, chart, warning, fetched>>

\* openmeteo.weather_api answers: the frame is built, written to CSV_FILE and
\* returned (and memoized by load_data)
FetchSucceeds ==
    /\ pc = "fetching"
    /\ \E resp \in Responses :
          /\ df' = DataFrame(resp)
          /\ file' = ToCsv(DataFrame(resp))
          /\ memo' = DataFrame(resp)
          /\ fetched' = DataFrame(resp)
    /\ attempts' = attempts + 1
    /\ source' = "fetch" /\ pc' = "loaded"
    /\ UNCHANGED <<error, year, month, filtered, summary, chart, warning>>

\* a network call of weather_api fails: retried until the budget is used up,
\* then the exception leaves fetch_weather_data and load_data
FetchFails ==
    /\ pc = "fetching"
    /\ attempts' = attempts + 1
    /\ IF BudgetExhausted(attempts + 1)
       THEN pc' = "failed" /\ error' = "DataUnavailable"
       ELSE UNCHANGED <<pc, error>>
    /\ UNCHANGED <<file, memo, df, source, year, month, filtered, summary, chart,
                   warning, fetched>>

\* df["year"] = ...; df["month"] = ...
AddYearMonth ==
    /\ pc = "loaded"
    /\ df' = WithYearMonth(df)
    /\ pc' = "ready"
    /\ UNCHANGED <<file, memo, source, attempts, error, year, month, filtered,
                   summary, chart, warning, fetched>>

\* the empty check left out
NeverStops(sel) == FALSE

\* the selection is empty: warn and stop
StopsOnEmpty(sel) == Len(sel) = 0

\* the two select boxes, the filter and the empty check
Select ==
    /\ pc = "ready"
    /\ \E y \in YearOptions(df), m \in MonthOptions :
          /\ year' = y /\ month' = m
          /\ filtered' = Filter(df, y, m)
          /\ IF StopsOnEmpty(Filter(df, y, m))
             THEN warning' = TRUE /\ pc' = "stopped"
             ELSE warning' = FALSE /\ pc' = "filtered"
    /\ UNCHANGED <<file, memo, df, source, attempts, error, summary, chart, fetched>>

\* the calculations and the two labels; on a column of text they raise
Summarise ==
    /\ pc = "filtered"
    /\ IF IsObject(filtered, "rain") \/ IsObject(filtered, "temp_mean")
          \/ IsObject(filtered, "temp_max")
       THEN pc' = "failed" /\ error' = "TypeError" /\ UNCHANGED summary
       ELSE pc' = "summarised" /\ summary' = SummaryOf(filtered) /\ UNCHANGED error
    /\ UNCHANGED <<file, memo, df, source, attempts, year, month, filtered, chart,
                   warning, fetched>>

\* the rainy/dry day counts of the bar chart, the last values computed
RainyVsDry ==
    /\ pc = "summarised"
    /\ chart' = [drawn |-> TRUE, rainy |-> RainyDays(filtered), dry |-> DryDays(filtered)]
    /\ pc' = "done"
    /\ UNCHANGED <<file, memo, df, source, attempts, error, year, month, filtered,
                   summary, warning, fetched>>

\* the script's variables of the next run
StartsAfresh ==
    /\ df' = NoData /\ source' = "none" /\ pc' = "start" /\ error' = "none"
    /\ year' = 0 /\ month' = 0 /\ filtered' = <<>>
    /\ summary' = NoSummary /\ chart' = NoChart /\ warning' = FALSE

Ended == pc \in {"done", "stopped", "failed"}

\* the user changes a selection (or reloads): the script runs again from the
\* top in the same process
Rerun ==
    /\ Ended
    /\ StartsAfresh
    /\ UNCHANGED <<file, memo, attempts, fetched>>

\* the process is started again: nothing is memoized
Restart ==
    /\ Ended
    /\ StartsAfresh
    /\ memo' = NoData
    /\ UNCHANGED <<file, attempts, fetched>>

Next ==
    \/ LoadData
    \/ FetchSucceeds
    \/ FetchFails
    \/ AddYearMonth
    \/ Select
    \/ Summarise
    \/ RainyVsDry
    \/ Rerun
    \/ Restart

Spec == Init /\ [][Next]_vars

(***************************************************************************)
(* A run over a cache file with one malformed cell                         *)
(***************************************************************************)
InitMalformed ==
    /\ \E mf \in MalformedFiles : file = mf.file /\ fetched = mf.from
    /\ memo = NoData /\ attempts = 0
    /\ FreshRun

NextCached ==
    \/ LoadData
    \/ AddYearMonth
    \/ Select
    \/ Summarise
    \/ RainyVsDry
    \/ Rerun
    \/ Restart

SpecMalformed == InitMalformed /\ [][NextCached]_vars

(***************************************************************************)
(* The summary by itself, on every selection drawn                         *)
(***************************************************************************)
InitSummary ==
    /\ file = Absent /\ memo = NoData /\ attempts = 0 /\ fetched = NoData
    /\ df = NoData /\ source = "none" /\ error = "none"
    /\ year = 2014 /\ month = 4
    /\ filtered \in Selections
    /\ pc = "filtered"
    /\ summary = NoSummary /\ chart = NoChart /\ warning = FALSE

NextSummary ==
    \/ Summarise
    \/ RainyVsDry

SpecSummary == InitSummary /\ [][NextSummary]_vars

(***************************************************************************)
(* Properties.  The quantities they speak of are recomputed here from the  *)
(* selection, over index sets, with the numbers of the specification.      *)
(***************************************************************************)
\* the rows of sel whose column c holds a number
NonNull(sel, c) == {i \in 1..Len(sel) : sel[i][c].k = "num"}

\* the rows of sel whose column c holds a number above zero
Positive(sel, c) == {i \in 1..Len(sel) : sel[i][c].k = "num" /\ sel[i][c].v > 0}

RECURSIVE SetSum(_, _, _)
\* the sum of column c over the rows S of sel
SetSum(sel, c, S) ==
    IF S = {} THEN 0
    ELSE LET i == CHOOSE n \in S : TRUE
         IN  sel[i][c].v + SetSum(sel, c, S \ {i})

TotalOf(sel, c) == SetSum(sel, c, NonNull(sel, c))

Summarised == summary.dominant_weather # "" /\ summary.rain_intensity # ""

\* C1: dominant_weather is decided by the first rule that matches: total_rain
\* > 0 and rainy_days >= 3 gives Rain Dominant; else rainy_days = 0 and
\* avg_max_temp >= 32 gives Heat Dominant; else Mixed Weather.  The 30 days
\* with 5 rainy days and 80.0 mm at 29.0 degrees are Rain Dominant, the 30 dry
\* days at 35.0 degrees are Heat Dominant.
C1_DominantWeatherRule ==
    Summarised =>
        LET rain == TotalOf(filtered, "rain")
            rainy == Cardinality(Positive(filtered, "rain"))
            n == Cardinality(NonNull(filtered, "temp_max"))
            hot == n > 0 /\ TotalOf(filtered, "temp_max") >= 3200 * n
            first == rain > 0 /\ rainy >= 3
            second == rainy = 0 /\ hot
        IN  /\ first => summary.dominant_weather = "Rain Dominant"
            /\ (~first /\ second) => summary.dominant_weather = "Heat Dominant"
            /\ (~first /\ ~second) => summary.dominant_weather = "Mixed Weather"
            /\ filtered = ScenarioRain => summary.dominant_weather = "Rain Dominant"
            /\ filtered = ScenarioHeat => summary.dominant_weather = "Heat Dominant"

\* the 30-day rainy scenario, summarised
C1_Witness ==
    /\ Summarised /\ Len(filtered) = 30
    /\ summary.total_rain = 8000 /\ summary.rainy_days = 5
    /\ summary.avg_max_temp = [sum |-> 30 * 2900, cnt |-> 30]
    /\ summary.dominant_weather = "Rain Dominant"

\* C2: rain_intensity is a function of total_rain alone: 0 is No Rain, up to
\* 50.00 is Light Rain, up to 150.00 is Moderate Rain, above is Heavy Rain,
\* the upper bounds included (50.00 Light, 50.01 Moderate, 150.00 Moderate,
\* 150.01 Heavy).
C2_RainIntensityThresholds ==
    Summarised =>
        LET rain == TotalOf(filtered, "rain")
        IN  /\ summary.total_rain = rain
            /\ rain >= 0
            /\ rain = 0 => summary.rain_intensity = "No Rain"
            /\ (0 < rain /\ rain <= 5000) => summary.rain_intensity = "Light Rain"
            /\ (5000 < rain /\ rain <= 15000) => summary.rain_intensity = "Moderate Rain"
            /\ rain > 15000 => summary.rain_intensity = "Heavy Rain"

\* a month of 150.01 mm over three rainy days
C2_Witness ==
    /\ Summarised /\ summary.total_rain = 15001
    /\ summary.rain_intensity = "Heavy Rain"

Selected == year # 0

SomeRowMatches ==
    \E i \in 1..Len(df.rows) :
        YearOf(df.rows[i]["date"]) = year /\ MonthOf(df.rows[i]["date"]) = month

\* C3: for a year of the dataset and a month 1..12 that no record matches, the
\* run warns and stops with no statistic, label or chart computed; a summary
\* is only ever computed over at least one record.
C3_NoDataStops ==
    /\ Selected => year \in {YearOf(df.rows[i]["date"]) : i \in 1..Len(df.rows)}
                   /\ month \in 1..12
    /\ (Selected /\ ~SomeRowMatches) =>
           /\ pc = "stopped" /\ warning
           /\ summary = NoSummary /\ chart = NoChart
    /\ (Summarised \/ chart.drawn) =>
           /\ SomeRowMatches /\ Len(filtered) > 0 /\ ~warning

\* a month without records was selected
C3_Witness ==
    /\ pc = "stopped" /\ warning /\ Selected /\ ~SomeRowMatches
    /\ Len(df.rows) > 0

\* the frame d holds what the file f says, row by row and cell by cell
IsContentOf(d, f) ==
    /\ Len(d.rows) = Len(f.rows)
    /\ \A i \in 1..Len(f.rows) : \A j \in 1..Len(f.header) :
          IF f.header[j] = "date"
          THEN FormatDate(d.rows[i]["date"]) = f.rows[i][j]
          ELSE FormatFloat(d.rows[i][f.header[j]]) = f.rows[i][j]

\* C4: the cache is a two-state machine, Unpopulated -> Populated: the
\* network is called and the file written only while the file is absent;
\* once it exists it is never rewritten or removed, no network call is made,
\* and every load returns what the file holds (read from it, or memoized in
\* the same process).
C4_CacheOrFetch ==
    [][/\ file.exists => (file' = file /\ attempts' = attempts /\ pc' # "fetching")
       /\ file' # file => (file = Absent /\ file'.exists /\ pc = "fetching"
                           /\ attempts' = attempts + 1)
       /\ (file.exists /\ pc = "start" /\ pc' # "start") =>
              /\ pc' = "loaded" /\ IsContentOf(df', file)
              /\ source' = (IF memo = NoData THEN "file" ELSE "memo")]_vars

\* a later process loaded the frame from the file
C4_Witness ==
    /\ file.exists /\ source = "file" /\ pc = "loaded" /\ attempts > 0
    /\ IsContentOf(df, file)

\* C5: with no cache file, a fetch whose calls all fail ends with
\* DataUnavailable once the first call and its 5 retries are used up, and not
\* before; nothing is returned, memoized or written; the failed run makes no
\* further call, and the next run starts the fetch again.
C5_FetchFailureIsFatal ==
    /\ [](error = "DataUnavailable" =>
            /\ pc = "failed" /\ attempts = 1 + 5
            /\ file = Absent /\ df = NoData /\ memo = NoData)
    /\ [][(pc = "fetching" /\ attempts = 5 /\ file' = Absent) =>
            (pc' = "failed" /\ error' = "DataUnavailable")]_vars
    /\ [][pc = "failed" => (pc' = "start" /\ attempts' = attempts /\ file' = file)]_vars
    /\ [][(pc = "start" /\ file = Absent /\ memo = NoData) => pc' = "fetching"]_vars

\* the fetch has failed for good
C5_Witness ==
    /\ pc = "failed" /\ error = "DataUnavailable" /\ attempts = 6 /\ file = Absent

\* the cells a and b hold the same number to two decimals, or are both NaN
SameCell(a, b) ==
    /\ a.k = b.k
    /\ a.k \in {"num", "nan"}
    /\ a.k = "num" => Abs(a.v - b.v) < 1

\* the frames a and b hold the same records in the same order
SameRecords(a, b) ==
    /\ Len(a.rows) = Len(b.rows)
    /\ \A i \in 1..Len(b.rows) :
          /\ a.rows[i]["date"] = b.rows[i]["date"]
          /\ \A j \in 1..Len(NumCols) : SameCell(a.rows[i][NumCols[j]], b.rows[i][NumCols[j]])

\* C6: the frame loaded from the cache file has the records of the frame that
\* was saved: as many, in the same order, each with the same date and with
\* every numeric field equal to two decimals (NaN for NaN).
C6_CacheRoundTrip ==
    source = "file" => SameRecords(df, fetched)

\* two records with a NaN and a value with two decimals came back from the
\* file, as float64 where float32 was saved
C6_Witness ==
    /\ source = "file" /\ Len(df.rows) = 2 /\ df.cols = Cols
    /\ \E i \in 1..2 : df.rows[i]["temp_min"].k = "nan"
    /\ \E i \in 1..2 : df.rows[i]["rain"].k = "num" /\ df.rows[i]["rain"].v % 10 # 0
    /\ df # fetched

\* C7 as stated: the rainy and the dry days are all the days of the selection.
C7_RainyPlusDryIsTotal ==
    chart.drawn => chart.rainy + chart.dry = Len(filtered)

\* C7 as amended: the rainy and the dry days are the days of the selection
\* whose rain is not null (all the days when no rain is null), the rainy days
\* being the rainy_days of the summary.
C7_RainyPlusDryIsNonNull ==
    chart.drawn =>
        /\ chart.rainy + chart.dry = Cardinality(NonNull(filtered, "rain"))
        /\ chart.rainy = summary.rainy_days
        /\ NonNull(filtered, "rain") = 1..Len(filtered) =>
               chart.rainy + chart.dry = Len(filtered)

\* a rainy day, a dry day and a day without a rain value
C7_Witness ==
    /\ chart.drawn /\ chart.rainy = 1 /\ chart.dry = 1 /\ Len(filtered) = 3
    /\ Cardinality(NonNull(filtered, "rain")) = 2

\* C8: a cache file with one malformed cell still loads: the frame is
\* returned, the offending row is dropped or its field is null, and the other
\* rows are the records the file was written from.
C8_MalformedRowTolerated ==
    pc # "start" =>
        /\ error # "ValueError"
        /\ df # NoData
        /\ Len(df.rows) \in {Len(fetched.rows), Len(fetched.rows) - 1}
        /\ \A i \in 1..Len(df.rows) : \A j \in 1..Len(NumCols) :
              df.rows[i][NumCols[j]].k \in {"num", "nan"}
        /\ \A i \in 1..Len(df.rows) : \E n \in 1..Len(fetched.rows) :
              /\ df.rows[i]["date"] = fetched.rows[n]["date"]
              /\ \A j \in 1..Len(NumCols) :
                    \/ df.rows[i][NumCols[j]].k = "nan"
                    \/ SameCell(df.rows[i][NumCols[j]], fetched.rows[n][NumCols[j]])

\* the seven fetched columns of a frame
BaseRecords(d) == [i \in 1..Len(d.rows) |-> [c \in Range(Cols) |-> d.rows[i][c]]]

\* C9 as stated: once the script holds the dataset, its records, their
\* fields, its columns and the cache file never change.
C9_NeverMutated ==
    [][(df # NoData /\ df' # NoData) =>
          (df'.rows = df.rows /\ df'.cols = df.cols /\ file' = file)]_vars

\* C9 as amended: once the script holds the dataset, its records and their
\* seven fetched fields, the memoized frame and the cache file never change;
\* the one change is the year and month columns added right after the load;
\* the selection is a subset of the records.
C9_OnlyDerivedColumnsAdded ==
    [][(df # NoData /\ df' # NoData) =>
          /\ BaseRecords(df') = BaseRecords(df)
          /\ file' = file /\ memo' = memo
          /\ \/ df' = df
             \/ pc = "loaded" /\ df'.cols = df.cols \o <<"year", "month">>
          /\ Range(filtered') \subseteq Range(df'.rows)]_vars

\* a selection of some of the records of a frame with the two added columns
C9_Witness ==
    /\ pc = "done" /\ Len(df.cols) = 9
    /\ Len(filtered) > 0 /\ Len(filtered) < Len(df.rows)
    /\ BaseRecords(df) = BaseRecords(memo)

\* C10: avg_temp and avg_max_temp are the means over the values that are not
\* null (nulls neither counted nor taken as zero), a null rain is no rainy
\* day, and the summary is computed all the same.
C10_MeansIgnoreNulls ==
    /\ Summarised =>
          /\ summary.avg_temp = [sum |-> TotalOf(filtered, "temp_mean"),
                                 cnt |-> Cardinality(NonNull(filtered, "temp_mean"))]
          /\ summary.avg_max_temp = [sum |-> TotalOf(filtered, "temp_max"),
                                     cnt |-> Cardinality(NonNull(filtered, "temp_max"))]
          /\ summary.rainy_days = Cardinality(Positive(filtered, "rain"))
    /\ error = "none"
    /\ pc # "filtered" => Summarised

\* a summary over a selection with a null temp_mean, temp_max and rain
C10_Witness ==
    /\ Summarised
    /\ \E i, j \in 1..Len(filtered) :
          filtered[i]["temp_mean"].k = "nan" /\ filtered[j]["temp_mean"].k = "num"
    /\ \E i, j \in 1..Len(filtered) :
          filtered[i]["temp_max"].k = "nan" /\ filtered[j]["temp_max"].k = "num"
    /\ \E i \in 1..Len(filtered) : filtered[i]["rain"].k = "nan"
    /\ summary.rainy_days > 0

====
